---- MODULE Spec2Model ----
(***************************************************************************)
(* Skill-badge REST resource (backend/routes/skillBadge.js): eight Express *)
(* routes, each issuing one parameterized SQL statement against the table  *)
(* skill_badges.  The model keeps the table, its identity sequence and a   *)
(* clock, the requests accepted but not yet executed, and the last         *)
(* request/response exchange.  A handler runs synchronously up to its      *)
(* single `await pool.query(...)` and reads nothing but the request before *)
(* it, so a handler is one atomic step taken at the instant its statement  *)
(* executes; concurrency is the order in which pending requests execute.   *)
(***************************************************************************)
EXTENDS Integers, Sequences, FiniteSets, Bags, TLC

VARIABLES
  tableExists,  \* skill_badges has been created (with its trigger and index)
  table,        \* id -> row of skill_badges
  nextId,       \* next value of the BIGSERIAL sequence behind id
  clock,        \* the database clock, read by now()
  pending,      \* bag of requests accepted by the runtime, statement not yet run
  last,         \* the last completed exchange (request and response), or None
  deleted,      \* history: ids whose row a DELETE has removed
  hist          \* history: id -> verified as last written other than by a
                \* toggle, and the parity of the toggles executed since

vars == <<tableExists, table, nextId, clock, pending, last, deleted, hist>>

\* Bounds of the model.
MaxId == 2        \* ids the sequence may hand out
MaxClock == 1     \* clock values 0..MaxClock
MaxInflight == 2  \* concurrently pending requests (concurrent specification)

-----------------------------------------------------------------------------
(* JavaScript values as they appear in req.body, req.query and req.params. *)

Undef == [t |-> "undefined"]
Null == [t |-> "null"]
Num(n) == [t |-> "number", n |-> n]
Str(s) == [t |-> "string", s |-> s]
Bool(b) == [t |-> "boolean", b |-> b]

\* obj[key] / destructuring: a missing key reads as undefined.
Get(obj, key) == IF key \in DOMAIN obj THEN obj[key] ELSE Undef

\* Mutant of Truthy: a test for null and undefined only (v != null).
NotNullish(v) == v.t \notin {"undefined", "null"}

\* JavaScript truthiness (the operand of !, !! and ||).
Truthy(v) ==
  CASE v.t = "undefined" -> FALSE
    [] v.t = "null" -> FALSE
    [] v.t = "boolean" -> v.b
    [] v.t = "number" -> v.n # 0
    [] v.t = "string" -> v.s # ""

\* typeof v === 'boolean'
IsBoolean(v) == v.t = "boolean"

\* Mutant of NotNot: the value passed on as it came.
Uncoerced(v) == v

\* !!v
NotNot(v) == Bool(Truthy(v))

\* v || null
OrNull(v) == IF Truthy(v) THEN v ELSE Null

-----------------------------------------------------------------------------
(* SQL values and the conversion of a bound parameter to a column's type.  *)

SqlNull == [null |-> TRUE]
SqlVal(v) == [null |-> FALSE, v |-> v]

\* The driver sends every parameter as text: null and undefined as NULL,
\* booleans as 'true'/'false', numbers in decimal, strings as they are.
PrepareValue(v) ==
  CASE v.t = "undefined" -> SqlNull
    [] v.t = "null" -> SqlNull
    [] v.t = "boolean" -> SqlVal(IF v.b THEN "true" ELSE "false")
    [] v.t = "number" -> SqlVal(ToString(v.n))
    [] v.t = "string" -> SqlVal(v.s)

\* The integers whose decimal text the model recognises as a BIGINT.
Numerals == 0..(MaxId + 1)

Converted(x) == [ok |-> TRUE, val |-> x]
Rejected == [ok |-> FALSE, val |-> SqlNull]

\* BIGINT input: decimal text parses, anything else is a storage error.
BigintIn(p) ==
  IF p.null THEN Converted(SqlNull)
  ELSE IF \E n \in Numerals : ToString(n) = p.v
       THEN Converted(SqlVal(CHOOSE n \in Numerals : ToString(n) = p.v))
       ELSE Rejected

\* BOOLEAN input: the spellings of true and false, anything else an error.
BooleanIn(p) ==
  IF p.null THEN Converted(SqlNull)
  ELSE IF p.v \in {"true", "t", "yes", "y", "on", "1"} THEN Converted(SqlVal(TRUE))
  ELSE IF p.v \in {"false", "f", "no", "n", "off", "0"} THEN Converted(SqlVal(FALSE))
  ELSE Rejected

VarcharLimit == 255

\* VARCHAR(255) input: text up to the limit, longer text is an error.
VarcharIn(p) ==
  IF p.null THEN Converted(SqlNull)
  ELSE IF Len(p.v) <= VarcharLimit THEN Converted(SqlVal(p.v))
  ELSE Rejected

\* TEXT input.
TextIn(p) == Converted(p)

\* A parameter bound to column col of skill_badges.
ColumnIn(col, p) ==
  CASE col = "student_id" -> BigintIn(p)
    [] col = "badge_name" -> VarcharIn(p)
    [] col = "badge_description" -> TextIn(p)
    [] col = "verified" -> BooleanIn(p)

-----------------------------------------------------------------------------
(* The table and its statements.  A statement yields the set of results it *)
(* can produce: [err, rows, table, nextId].                                *)

\* Mutant of NotNullOk: NOT NULL declared on verified alone.
NotNullVerifiedOnly(row) == ~row.verified.null

\* NOT NULL on student_id, badge_name, verified (the timestamps and id are
\* always set by their defaults and the trigger).
NotNullOk(row) ==
  /\ ~row.student_id.null
  /\ ~row.badge_name.null
  /\ ~row.verified.null

\* Mutant of TriggerUpdatedAt: the trigger is missing.
NoTrigger(new, now) == new

\* trg_skill_badges_updated_at: BEFORE UPDATE ... NEW.updated_at = NOW().
TriggerUpdatedAt(new, now) == [new EXCEPT !.updated_at = now]

\* Mutant of Nextval: the id taken as one more than the highest id stored.
MaxIdPlusOne(seq, tbl) ==
  IF DOMAIN tbl = {} THEN 1
  ELSE 1 + CHOOSE i \in DOMAIN tbl : \A j \in DOMAIN tbl : j <= i

\* nextval of the BIGSERIAL sequence: the sequence's next value.
Nextval(seq, tbl) == seq

Failed(tbl, seq) == [err |-> TRUE, rows |-> <<>>, table |-> tbl, nextId |-> seq]
Done(rows, tbl, seq) == [err |-> FALSE, rows |-> rows, table |-> tbl, nextId |-> seq]

\* A result set without ORDER BY: the rows in any arrangement.
AnyOrder(rows) ==
  LET n == Cardinality(rows) IN
  { s \in [1..n -> rows] : \A i, j \in 1..n : i # j => s[i] # s[j] }

\* Mutant of OrderByCreatedAtDesc: ascending order.
OrderByCreatedAtAsc(rows) ==
  { s \in AnyOrder(rows) :
      LET n == Cardinality(rows) IN
      \A i \in 1..n : i < n => s[i].created_at <= s[i + 1].created_at }

\* ORDER BY created_at DESC: every arrangement of the rows with created_at
\* non-increasing (the order among equal created_at is the engine's choice).
OrderByCreatedAtDesc(rows) ==
  { s \in AnyOrder(rows) :
      LET n == Cardinality(rows) IN
      \A i \in 1..n : i < n => s[i].created_at >= s[i + 1].created_at }

\* INSERT INTO skill_badges (student_id, badge_name, badge_description,
\* verified) VALUES ($1, $2, $3, $4) RETURNING *
InsertBadge(exists, tbl, seq, now, params) ==
  LET sid == BigintIn(PrepareValue(params[1]))
      name == VarcharIn(PrepareValue(params[2]))
      descr == TextIn(PrepareValue(params[3]))
      ver == BooleanIn(PrepareValue(params[4]))
      id == Nextval(seq, tbl)
      row == [id |-> id, student_id |-> sid.val, badge_name |-> name.val,
              badge_description |-> descr.val, verified |-> ver.val,
              created_at |-> now, updated_at |-> now]
  IN IF ~exists \/ ~sid.ok \/ ~name.ok \/ ~descr.ok \/ ~ver.ok
     THEN {Failed(tbl, seq)}
     ELSE IF ~NotNullOk(row)
     THEN {Failed(tbl, id + 1)}
     ELSE {Done(<<row>>, (id :> row) @@ tbl, id + 1)}

\* SELECT * FROM skill_badges ORDER BY created_at DESC
SelectAll(exists, tbl, seq) ==
  IF ~exists THEN {Failed(tbl, seq)}
  ELSE { Done(s, tbl, seq) : s \in OrderByCreatedAtDesc({tbl[i] : i \in DOMAIN tbl}) }

\* The rows a WHERE student_id = $1 keeps.
WhereStudent(tbl, sid) ==
  { tbl[i] : i \in { j \in DOMAIN tbl :
                       ~sid.null /\ ~tbl[j].student_id.null /\ tbl[j].student_id.v = sid.v } }

\* SELECT * FROM skill_badges WHERE student_id = $1 ORDER BY created_at DESC
SelectByStudent(exists, tbl, seq, param) ==
  LET sid == BigintIn(PrepareValue(param)) IN
  IF ~exists \/ ~sid.ok THEN {Failed(tbl, seq)}
  ELSE { Done(s, tbl, seq) : s \in OrderByCreatedAtDesc(WhereStudent(tbl, sid.val)) }

\* The ids a WHERE id = $n keeps.
WhereId(tbl, id) == { i \in DOMAIN tbl : ~id.null /\ i = id.v }

\* SELECT * FROM skill_badges WHERE id = $1
SelectById(exists, tbl, seq, param) ==
  LET id == BigintIn(PrepareValue(param)) IN
  IF ~exists \/ ~id.ok THEN {Failed(tbl, seq)}
  ELSE { Done(s, tbl, seq) : s \in AnyOrder({tbl[i] : i \in WhereId(tbl, id.val)}) }

\* One UPDATE of the rows in ids, set[i] being row i after its SET clause:
\* then the BEFORE UPDATE trigger, then the NOT NULL constraints; a violation
\* aborts the statement and leaves the table as it was.
UpdateRows(tbl, seq, now, ids, set) ==
  LET new == [i \in ids |-> TriggerUpdatedAt(set[i], now)] IN
  IF \E i \in ids : ~NotNullOk(new[i])
  THEN {Failed(tbl, seq)}
  ELSE { Done(s, [i \in DOMAIN tbl |-> IF i \in ids THEN new[i] ELSE tbl[i]], seq) :
           s \in AnyOrder({new[i] : i \in ids}) }

\* UPDATE skill_badges SET <fields> WHERE id = $idx RETURNING *, fields being
\* the sequence of <<column, value>> the PUT handler collected.
UpdateFields(exists, tbl, seq, now, fields, param) ==
  LET conv == [k \in 1..Len(fields) |-> ColumnIn(fields[k][1], PrepareValue(fields[k][2]))]
      id == BigintIn(PrepareValue(param))
      assign(row) ==
        [col \in DOMAIN row |->
           IF \E k \in 1..Len(fields) : fields[k][1] = col
           THEN conv[CHOOSE k \in 1..Len(fields) : fields[k][1] = col].val
           ELSE row[col]]
  IN IF ~exists \/ ~id.ok \/ (\E k \in 1..Len(fields) : ~conv[k].ok)
     THEN {Failed(tbl, seq)}
     ELSE UpdateRows(tbl, seq, now, WhereId(tbl, id.val),
                     [i \in WhereId(tbl, id.val) |-> assign(tbl[i])])

\* UPDATE skill_badges SET verified = $1 WHERE id = $2 RETURNING *
UpdateVerifiedSet(exists, tbl, seq, now, value, param) ==
  LET ver == BooleanIn(PrepareValue(value))
      id == BigintIn(PrepareValue(param))
      assign(row) == [row EXCEPT !.verified = ver.val]
  IN IF ~exists \/ ~id.ok \/ ~ver.ok
     THEN {Failed(tbl, seq)}
     ELSE UpdateRows(tbl, seq, now, WhereId(tbl, id.val),
                     [i \in WhereId(tbl, id.val) |-> assign(tbl[i])])

\* Mutant of NotVerified: the negation of a value read before the statement
\* ran (the value verified was last set to), written back.
NotVerifiedStale(row) == [row EXCEPT !.verified = SqlVal(~hist[row.id].base)]

\* SET verified = NOT verified, on the row as stored when the statement runs.
NotVerified(row) == [row EXCEPT !.verified = SqlVal(~row.verified.v)]

\* UPDATE skill_badges SET verified = NOT verified WHERE id = $1 RETURNING *
UpdateVerifiedToggle(exists, tbl, seq, now, param) ==
  LET id == BigintIn(PrepareValue(param))
      assign(row) == NotVerified(row)
  IN IF ~exists \/ ~id.ok
     THEN {Failed(tbl, seq)}
     ELSE UpdateRows(tbl, seq, now, WhereId(tbl, id.val),
                     [i \in WhereId(tbl, id.val) |-> assign(tbl[i])])

\* The setup script (CREATE TABLE IF NOT EXISTS, CREATE OR REPLACE FUNCTION,
\* the trigger, CREATE INDEX IF NOT EXISTS), run as one implicit transaction:
\* either it commits and the table exists, or the database refuses it (a
\* failed statement, a clash with the same script run concurrently) and the
\* schema is as it was.
CreateSchema(exists) ==
  {[err |-> FALSE, exists |-> TRUE], [err |-> TRUE, exists |-> exists]}

\* DELETE FROM skill_badges WHERE id = $1 RETURNING *
DeleteById(exists, tbl, seq, param) ==
  LET id == BigintIn(PrepareValue(param))
      ids == IF id.ok THEN WhereId(tbl, id.val) ELSE {}
  IN IF ~exists \/ ~id.ok
     THEN {Failed(tbl, seq)}
     ELSE { Done(s, [i \in DOMAIN tbl \ ids |-> tbl[i]], seq) :
              s \in AnyOrder({tbl[i] : i \in ids}) }

-----------------------------------------------------------------------------
(* Requests and responses.                                                 *)

Request(op, param, body) == [op |-> op, param |-> param, body |-> body]

None == [status |-> 0]

\* res.status(n).json({success, data?, message?})
Json(status, data) == [status |-> status, data |-> data, errored |-> FALSE]

\* next(err): Express's error path, answered with 500.
NextErr == [status |-> 500, data |-> <<>>, errored |-> TRUE]

Exchange(r, resp, queried) ==
  [req |-> r, status |-> resp.status, data |-> resp.data,
   errored |-> resp.errored, queried |-> queried]

EmptyTable == [i \in {} |-> 0]

\* The history of verified after a statement: a row's entry is reset when the
\* statement wrote verified (or inserted the row), its parity flips on a
\* toggle, and it goes with the row.
HistAfter(tbl, how, id) ==
  [i \in DOMAIN tbl |->
     IF i = id /\ how = "write" THEN [base |-> tbl[i].verified.v, odd |-> FALSE]
     ELSE IF i = id /\ how = "toggle" THEN [hist[i] EXCEPT !.odd = ~@]
     ELSE hist[i]]

\* The handler of r ends: its response is sent and the statement's effect on
\* the table stands.
Respond(r, resp, queried, tbl, seq, how, id) ==
  /\ pending' = pending (-) SetToBag({r})
  /\ last' = Exchange(r, resp, queried)
  /\ table' = tbl
  /\ nextId' = seq
  /\ deleted' = deleted \cup (DOMAIN table \ DOMAIN tbl)
  /\ hist' = HistAfter(tbl, how, id)
  /\ UNCHANGED <<tableExists, clock>>

\* A response sent before any statement was issued.
RespondLocal(r, resp) == Respond(r, resp, FALSE, table, nextId, "none", 0)

Init ==
  /\ tableExists = FALSE
  /\ table = EmptyTable
  /\ nextId = 1
  /\ clock = 0
  /\ pending = EmptyBag
  /\ last = None
  /\ deleted = {}
  /\ hist = EmptyTable

-----------------------------------------------------------------------------
(* The route handlers.                                                     *)

\* GET /create-skill-badges-table: CREATE TABLE IF NOT EXISTS, the trigger
\* function, the trigger and the index, sent as one script.  The handler has
\* its own catch: a rejected script is answered 500 by res.json, not through
\* next(err).
CreateTable(r) ==
  /\ r.op = "CREATE_TABLE"
  /\ \E res \in CreateSchema(tableExists) :
       /\ tableExists' = res.exists
       /\ last' = Exchange(r, IF res.err THEN Json(500, <<>>) ELSE Json(200, <<>>), TRUE)
  /\ pending' = pending (-) SetToBag({r})
  /\ UNCHANGED <<table, nextId, clock, deleted, hist>>

\* POST /badges
PostBadge(r) ==
  /\ r.op = "POST"
  /\ LET student_id == Get(r.body, "student_id")
         badge_name == Get(r.body, "badge_name")
         badge_description == Get(r.body, "badge_description")
         verified == Get(r.body, "verified")
     IN IF ~Truthy(student_id) \/ ~Truthy(badge_name)
        THEN RespondLocal(r, Json(400, <<>>))
        ELSE \E res \in InsertBadge(tableExists, table, nextId, clock,
                         <<student_id, badge_name, OrNull(badge_description),
                           NotNot(verified)>>) :
               IF res.err
               THEN Respond(r, NextErr, TRUE, res.table, res.nextId, "none", 0)
               ELSE Respond(r, Json(201, <<res.rows[1]>>), TRUE, res.table, res.nextId,
                            "write", res.rows[1].id)

\* GET /badges
ListBadges(r) ==
  /\ r.op = "LIST"
  /\ LET student_id == Get(r.body, "student_id") IN
     \E res \in IF Truthy(student_id)
                THEN SelectByStudent(tableExists, table, nextId, student_id)
                ELSE SelectAll(tableExists, table, nextId) :
       IF res.err
       THEN Respond(r, NextErr, TRUE, res.table, res.nextId, "none", 0)
       ELSE Respond(r, Json(200, res.rows), TRUE, res.table, res.nextId, "none", 0)

\* if (result.rows.length === 0) return 404; else 200 with rows[0]
RowOr404(res) ==
  IF Len(res.rows) = 0 THEN Json(404, <<>>) ELSE Json(200, <<res.rows[1]>>)

\* GET /badges/:id
GetBadge(r) ==
  /\ r.op = "GET"
  /\ \E res \in SelectById(tableExists, table, nextId, Str(r.param)) :
       IF res.err
       THEN Respond(r, NextErr, TRUE, res.table, res.nextId, "none", 0)
       ELSE Respond(r, RowOr404(res), TRUE, res.table, res.nextId, "none", 0)

\* GET /students/:studentId/badges
StudentBadges(r) ==
  /\ r.op = "STUDENT"
  /\ \E res \in SelectByStudent(tableExists, table, nextId, Str(r.param)) :
       IF res.err
       THEN Respond(r, NextErr, TRUE, res.table, res.nextId, "none", 0)
       ELSE Respond(r, Json(200, res.rows), TRUE, res.table, res.nextId, "none", 0)

allowed == <<"badge_name", "badge_description", "verified", "student_id">>

\* Mutant of CollectFields: the values pushed in the reverse of the order of
\* their placeholders.
CollectFieldsMisbound(body) ==
  LET present == SelectSeq(allowed, LAMBDA key : key \in DOMAIN body)
      n == Len(present)
  IN [k \in 1..n |-> <<present[k], body[present[n + 1 - k]]>>]

\* Mutant of CollectFields: every allowed key taken, present or not.
CollectAllAllowed(body) ==
  [k \in 1..Len(allowed) |-> <<allowed[k], Get(body, allowed[k])>>]

\* The <<column, value>> pairs of the allowed keys the body has, in the order
\* of allowed.
CollectFields(body) ==
  LET present == SelectSeq(allowed, LAMBDA key : key \in DOMAIN body) IN
  [k \in 1..Len(present) |-> <<present[k], body[present[k]]>>]

\* The id of the row a successful statement returned, 0 when it returned none.
ReturnedId(res) == IF res.err \/ Len(res.rows) = 0 THEN 0 ELSE res.rows[1].id

\* PUT /badges/:id
UpdateBadge(r) ==
  /\ r.op = "PUT"
  /\ LET fields == CollectFields(r.body) IN
     IF Len(fields) = 0
     THEN RespondLocal(r, Json(400, <<>>))
     ELSE \E res \in UpdateFields(tableExists, table, nextId, clock, fields, Str(r.param)) :
            IF res.err
            THEN Respond(r, NextErr, TRUE, res.table, res.nextId, "none", 0)
            ELSE Respond(r, RowOr404(res), TRUE, res.table, res.nextId,
                         IF "verified" \in DOMAIN r.body THEN "write" ELSE "none",
                         ReturnedId(res))

\* PATCH /badges/:id/verify
VerifyBadge(r) ==
  /\ r.op = "VERIFY"
  /\ LET verified == Get(r.body, "verified") IN
     \E res \in IF IsBoolean(verified)
                THEN UpdateVerifiedSet(tableExists, table, nextId, clock, verified, Str(r.param))
                ELSE UpdateVerifiedToggle(tableExists, table, nextId, clock, Str(r.param)) :
       IF res.err
       THEN Respond(r, NextErr, TRUE, res.table, res.nextId, "none", 0)
       ELSE Respond(r, RowOr404(res), TRUE, res.table, res.nextId,
                    IF IsBoolean(verified) THEN "write" ELSE "toggle",
                    ReturnedId(res))

\* DELETE /badges/:id
DeleteBadge(r) ==
  /\ r.op = "DELETE"
  /\ \E res \in DeleteById(tableExists, table, nextId, Str(r.param)) :
       IF res.err
       THEN Respond(r, NextErr, TRUE, res.table, res.nextId, "none", 0)
       ELSE Respond(r, RowOr404(res), TRUE, res.table, res.nextId, "none", 0)

-----------------------------------------------------------------------------
(* The environment: the requests clients send, and the clock.              *)

\* Path parameters: every id the sequence can hand out, one beyond, and text
\* that is no number.
IdParams == {ToString(i) : i \in 1..(MaxId + 1)} \cup {"abc"}

EmptyBody == [k \in {} |-> Null]

PostBodies ==
  { [student_id |-> Num(1), badge_name |-> Str("a")],
    [student_id |-> Num(2), badge_name |-> Str("b"),
     badge_description |-> Str("d"), verified |-> Bool(TRUE)],
    [student_id |-> Str("2"), badge_name |-> Str("a"),
     badge_description |-> Str(""), verified |-> Bool(FALSE)],
    [student_id |-> Num(1), badge_name |-> Str("b"), verified |-> Str("x")],
    [student_id |-> Str("abc"), badge_name |-> Str("a")],
    [badge_name |-> Str("a"), badge_description |-> Str("d"), verified |-> Bool(TRUE)],
    [student_id |-> Num(1), verified |-> Bool(TRUE)],
    [student_id |-> Num(0), badge_name |-> Str("a")],
    [student_id |-> Num(1), badge_name |-> Str("")],
    [student_id |-> Null, badge_name |-> Null],
    EmptyBody }

PutBodies ==
  { EmptyBody,
    [id |-> Num(1), created_at |-> Num(0), updated_at |-> Num(0)],
    [badge_name |-> Str("b")],
    [badge_name |-> Str("a"), updated_at |-> Num(0), created_at |-> Num(1)],
    [badge_description |-> Str("d")],
    [badge_description |-> Null],
    [badge_name |-> Str("b"), badge_description |-> Str("d")],
    [verified |-> Bool(TRUE)],
    [verified |-> Num(0)],
    [student_id |-> Num(2)],
    [badge_name |-> Str("a"), badge_description |-> Null,
     verified |-> Bool(FALSE), student_id |-> Str("1")],
    [student_id |-> Null],
    [badge_name |-> Null, verified |-> Bool(TRUE)],
    [verified |-> Null],
    [verified |-> Str("x")],
    [student_id |-> Str("abc")] }

VerifyBodies ==
  { EmptyBody, [verified |-> Bool(TRUE)], [verified |-> Bool(FALSE)],
    [verified |-> Str("true")] }

ListQueries ==
  { EmptyBody, [student_id |-> Str("1")], [student_id |-> Str("2")],
    [student_id |-> Str("0")], [student_id |-> Str("")], [student_id |-> Str("abc")] }

Requests ==
  {Request("CREATE_TABLE", "", EmptyBody)}
  \cup {Request("POST", "", b) : b \in PostBodies}
  \cup {Request("LIST", "", q) : q \in ListQueries}
  \cup {Request("GET", id, EmptyBody) : id \in IdParams}
  \cup {Request("STUDENT", id, EmptyBody) : id \in {"1", "2", "abc"}}
  \cup {Request("PUT", id, b) : id \in IdParams, b \in PutBodies}
  \cup {Request("VERIFY", id, b) : id \in IdParams, b \in VerifyBodies}
  \cup {Request("DELETE", id, EmptyBody) : id \in IdParams}

\* The sequence is capped: a create is accepted while it has values left and
\* no other create is pending.
Admissible(r) ==
  r.op = "POST" =>
    /\ nextId <= MaxId
    /\ \A q \in BagToSet(pending) : q.op # "POST"

\* A client sends r once the previous exchange is over: requests one at a time.
Arrive(r) ==
  /\ pending = EmptyBag
  /\ last = None
  /\ Admissible(r)
  /\ pending' = SetToBag({r})
  /\ UNCHANGED <<tableExists, table, nextId, clock, last, deleted, hist>>

\* A client sends r while other requests are still pending.
ArriveConcurrent(r) ==
  /\ BagCardinality(pending) < MaxInflight
  /\ Admissible(r)
  /\ pending' = pending (+) SetToBag({r})
  /\ UNCHANGED <<tableExists, table, nextId, clock, last, deleted, hist>>

\* The response reaches its client.
Deliver ==
  /\ last # None
  /\ last' = None
  /\ UNCHANGED <<tableExists, table, nextId, clock, pending, deleted, hist>>

\* The database clock advances.
Tick ==
  /\ clock < MaxClock
  /\ clock' = clock + 1
  /\ UNCHANGED <<tableExists, table, nextId, pending, last, deleted, hist>>

Next ==
  \/ \E r \in Requests : Arrive(r)
  \/ \E r \in BagToSet(pending) : CreateTable(r)
  \/ \E r \in BagToSet(pending) : PostBadge(r)
  \/ \E r \in BagToSet(pending) : ListBadges(r)
  \/ \E r \in BagToSet(pending) : GetBadge(r)
  \/ \E r \in BagToSet(pending) : StudentBadges(r)
  \/ \E r \in BagToSet(pending) : UpdateBadge(r)
  \/ \E r \in BagToSet(pending) : VerifyBadge(r)
  \/ \E r \in BagToSet(pending) : DeleteBadge(r)
  \/ Deliver
  \/ Tick

Spec == Init /\ [][Next]_vars

-----------------------------------------------------------------------------
(* Specifications over narrower sets of requests.  Each keeps the handlers *)
(* of Spec and restricts what the clients send.                            *)

\* Ids that can name a row, and one the sequence never reaches.
RowIdParams == {ToString(i) : i \in 1..MaxId}
AbsentIdParams == {ToString(MaxId + 1), "abc"}

CreateTableRequest == Request("CREATE_TABLE", "", EmptyBody)

\* Creation, lookup and deletion with every kind of body and id; updates and
\* verifications only of ids that name no row.
CrudRequests ==
  {CreateTableRequest}
  \cup {Request("POST", "", b) : b \in PostBodies}
  \cup {Request("GET", id, EmptyBody) : id \in IdParams}
  \cup {Request("DELETE", id, EmptyBody) : id \in IdParams}
  \cup {Request("PUT", id, b) : id \in AbsentIdParams,
          b \in {EmptyBody, [badge_name |-> Str("b")], [student_id |-> Null],
                 [student_id |-> Str("abc")]}}
  \cup {Request("VERIFY", id, b) : id \in AbsentIdParams,
          b \in {EmptyBody, [verified |-> Bool(TRUE)]}}

NextCrud ==
  \/ \E r \in CrudRequests : Arrive(r)
  \/ \E r \in BagToSet(pending) : CreateTable(r)
  \/ \E r \in BagToSet(pending) : PostBadge(r)
  \/ \E r \in BagToSet(pending) : GetBadge(r)
  \/ \E r \in BagToSet(pending) : UpdateBadge(r)
  \/ \E r \in BagToSet(pending) : VerifyBadge(r)
  \/ \E r \in BagToSet(pending) : DeleteBadge(r)
  \/ Deliver
  \/ Tick

SpecCrud == Init /\ [][NextCrud]_vars

\* Partial updates with every body, on a table of rows of two kinds; the
\* clock stands still.
UpdateRequests ==
  {CreateTableRequest}
  \cup {Request("POST", "", b) :
          b \in {[student_id |-> Num(1), badge_name |-> Str("a")],
                 [student_id |-> Num(2), badge_name |-> Str("b"),
                  badge_description |-> Str("d"), verified |-> Bool(TRUE)],
                 [student_id |-> Null, badge_name |-> Null],
                 EmptyBody}}
  \cup {Request("PUT", id, b) : id \in IdParams, b \in PutBodies}

NextUpdate ==
  \/ \E r \in UpdateRequests : Arrive(r)
  \/ \E r \in BagToSet(pending) : CreateTable(r)
  \/ \E r \in BagToSet(pending) : PostBadge(r)
  \/ \E r \in BagToSet(pending) : UpdateBadge(r)
  \/ Deliver

SpecUpdate == Init /\ [][NextUpdate]_vars

\* Listings over tables whose rows differ in student and creation time.
ListRequests ==
  {CreateTableRequest}
  \cup {Request("POST", "", [student_id |-> Num(n), badge_name |-> Str("a")]) : n \in {1, 2}}
  \cup {Request("LIST", "", q) : q \in ListQueries}
  \cup {Request("STUDENT", id, EmptyBody) : id \in {"1", "2", "0", "abc"}}
  \cup {Request("DELETE", id, EmptyBody) : id \in RowIdParams}

NextList ==
  \/ \E r \in ListRequests : Arrive(r)
  \/ \E r \in BagToSet(pending) : CreateTable(r)
  \/ \E r \in BagToSet(pending) : PostBadge(r)
  \/ \E r \in BagToSet(pending) : ListBadges(r)
  \/ \E r \in BagToSet(pending) : StudentBadges(r)
  \/ \E r \in BagToSet(pending) : DeleteBadge(r)
  \/ Deliver
  \/ Tick

SpecList == Init /\ [][NextList]_vars

\* Updates and verifications that rewrite a row with the values it has, so
\* that only the timestamps tell the states apart.
TimeRequests ==
  {CreateTableRequest,
   Request("POST", "", [student_id |-> Num(1), badge_name |-> Str("a")])}
  \cup {Request("PUT", id, b) : id \in RowIdParams,
          b \in {[badge_name |-> Str("a"), updated_at |-> Num(0), created_at |-> Num(1)],
                 [verified |-> Null, updated_at |-> Num(0)]}}
  \cup {Request("VERIFY", id, b) : id \in RowIdParams,
          b \in {EmptyBody, [verified |-> Bool(FALSE)]}}
  \cup {Request("DELETE", id, EmptyBody) : id \in RowIdParams}

NextTime ==
  \/ \E r \in TimeRequests : Arrive(r)
  \/ \E r \in BagToSet(pending) : CreateTable(r)
  \/ \E r \in BagToSet(pending) : PostBadge(r)
  \/ \E r \in BagToSet(pending) : UpdateBadge(r)
  \/ \E r \in BagToSet(pending) : VerifyBadge(r)
  \/ \E r \in BagToSet(pending) : DeleteBadge(r)
  \/ Deliver
  \/ Tick

SpecTime == Init /\ [][NextTime]_vars

\* Concurrent requests: up to MaxInflight pending at once, their statements
\* executed in any order, whether or not earlier responses have reached their
\* clients (last is then the most recent exchange).
ConcurrentRequests ==
  {CreateTableRequest}
  \cup {Request("POST", "", b) :
          b \in {[student_id |-> Num(1), badge_name |-> Str("a")],
                 [student_id |-> Num(1), badge_name |-> Str("a"), verified |-> Bool(TRUE)]}}
  \cup {Request("VERIFY", id, b) : id \in RowIdParams,
          b \in {EmptyBody, [verified |-> Bool(TRUE)]}}

NextConcurrent ==
  \/ \E r \in ConcurrentRequests : ArriveConcurrent(r)
  \/ \E r \in BagToSet(pending) : CreateTable(r)
  \/ \E r \in BagToSet(pending) : PostBadge(r)
  \/ \E r \in BagToSet(pending) : VerifyBadge(r)
  \/ Deliver

SpecConcurrent == Init /\ [][NextConcurrent]_vars

-----------------------------------------------------------------------------
(* Properties.                                                             *)

\* A step in which a handler ran: a pending request is gone and its
\* exchange is the last one.
HandledStep == last' # None /\ BagCardinality(pending') < BagCardinality(pending)

RecognizedKeys == {"badge_name", "badge_description", "verified", "student_id"}

\* A verify request that carries no boolean `verified`.
IsToggle(r) ==
  r.op = "VERIFY" /\ ("verified" \notin DOMAIN r.body \/ r.body.verified.t # "boolean")

\* The path parameter names no row of tbl.
MatchesNoRow(param, tbl) == \A i \in DOMAIN tbl : ToString(i) # param

\* The values JavaScript treats as false.
IsFalsy(v) == v \in {Undef, Null, Num(0), Str(""), Bool(FALSE)}

\* Decimal text of a number the model's BIGINT columns can hold.
IsDecimalText(s) == \E n \in 0..(MaxId + 1) : ToString(n) = s

\* data lists exactly rows, newest created first.
ListsNewestFirst(data, rows) ==
  /\ Len(data) = Cardinality(rows)
  /\ {data[k] : k \in 1..Len(data)} = rows
  /\ \A k \in 1..Len(data) : \A m \in 1..Len(data) :
       k < m => data[k].created_at >= data[m].created_at

RowsOfStudent(tbl, s) ==
  {tbl[i] : i \in {j \in DOMAIN tbl : ToString(tbl[j].student_id.v) = s}}

----
\* C1, part 1: with no other writer of verified since it was last set, the
\* stored verified is the value then set when an even number of toggles has
\* executed since, and its negation when an odd number has.
C1_Parity ==
  \A i \in DOMAIN table :
    table[i].verified.v = (IF hist[i].odd THEN ~hist[i].base ELSE hist[i].base)

\* C1, part 2: a toggle that succeeds negates the value stored at the instant
\* its statement executes, whatever other requests are pending.
C1_ToggleStep ==
  (HandledStep /\ IsToggle(last'.req) /\ last'.status = 200) =>
    \E i \in DOMAIN table :
      /\ ToString(i) = last'.req.param
      /\ table'[i].verified.v = ~table[i].verified.v
      /\ last'.data = <<table'[i]>>

\* C1: no toggle is lost under any interleaving of concurrent toggles: each
\* negates the value stored when its UPDATE executes, so after k toggles the
\* stored value is the initial one for even k and its negation for odd k.
C1_NoToggleLost == [](C1_Parity) /\ [][C1_ToggleStep]_vars

\* C1 witness: a toggle has just brought a row back to the value it had (an
\* even number of toggles, at least two) while another toggle of the same row
\* is still pending.
C1_Witness ==
  /\ last # None
  /\ IsToggle(last.req)
  /\ last.status = 200
  /\ \E i \in DOMAIN table :
       /\ ToString(i) = last.req.param
       /\ ~hist[i].odd
       /\ table[i].verified.v = hist[i].base
  /\ \E q \in BagToSet(pending) : IsToggle(q) /\ q.param = last.req.param

----
\* C2 (as stated): a GET, PUT with a recognized field, PATCH verify or DELETE
\* whose id matches no row of the table is answered 404, never through
\* next(err), and leaves the table unchanged, whatever the id and body.
C2_MissingIdIs404 ==
  [][(/\ HandledStep
      /\ tableExists
      /\ last'.req.op \in {"GET", "PUT", "VERIFY", "DELETE"}
      /\ (last'.req.op = "PUT" => DOMAIN last'.req.body \cap RecognizedKeys # {})
      /\ MatchesNoRow(last'.req.param, table))
     => (last'.status = 404 /\ ~last'.errored /\ table' = table)]_vars

----
\* The SQL value a supplied JavaScript value is stored as in column key.
Supplied(key, v) ==
  CASE v.t = "null" -> SqlNull
    [] v.t = "boolean" -> SqlVal(v.b)
    [] v.t = "number" /\ key = "student_id" -> SqlVal(v.n)
    [] v.t = "number" /\ key = "verified" -> SqlVal(v.n = 1)
    [] v.t = "string" /\ key = "student_id" ->
         SqlVal(CHOOSE n \in 0..(MaxId + 1) : ToString(n) = v.s)
    [] v.t = "string" -> SqlVal(v.s)

\* C3: a successful PUT sets, on the row with the id, exactly the allowed
\* fields present as keys of the body to the supplied values, plus updated_at;
\* the row's other fields, id and created_at, and every other row are
\* unchanged, keys outside the allow-list are ignored, and the response
\* carries the updated row.
C3_UpdateFrame ==
  [][(HandledStep /\ last'.req.op = "PUT" /\ last'.status = 200) =>
       \E i \in DOMAIN table :
         /\ ToString(i) = last'.req.param
         /\ DOMAIN table' = DOMAIN table
         /\ \A j \in DOMAIN table : j # i => table'[j] = table[j]
         /\ table'[i].id = i
         /\ table'[i].created_at = table[i].created_at
         /\ \A key \in RecognizedKeys :
              table'[i][key] = IF key \in DOMAIN last'.req.body
                               THEN Supplied(key, last'.req.body[key])
                               ELSE table[i][key]
         /\ last'.data = <<table'[i]>>]_vars

\* C3 witness: a PUT of {badge_name} alone (with keys outside the allow-list)
\* has renamed one row of a table of two.
C3_Witness ==
  /\ last # None
  /\ last.req.op = "PUT"
  /\ last.status = 200
  /\ DOMAIN last.req.body \cap RecognizedKeys = {"badge_name"}
  /\ DOMAIN last.req.body # {"badge_name"}
  /\ Cardinality(DOMAIN table) = 2
  /\ \E i \in DOMAIN table :
       /\ ToString(i) = last.req.param
       /\ table[i].badge_name.v = "a"
       /\ table[i].student_id.v = 2
       /\ table[i].verified.v

----
\* C4, part 1: updated_at is never before created_at.
C4_Order == \A i \in DOMAIN table : table[i].updated_at >= table[i].created_at

\* C4, part 2: a row keeps its created_at, its updated_at never decreases,
\* and a successful PUT or verify sets updated_at to the server's clock.
C4_Step ==
  /\ \A i \in DOMAIN table \cap DOMAIN table' :
       /\ table'[i].created_at = table[i].created_at
       /\ table'[i].updated_at >= table[i].updated_at
  /\ (HandledStep /\ last'.req.op \in {"PUT", "VERIFY"} /\ last'.status = 200) =>
       \A i \in DOMAIN table' :
         ToString(i) = last'.req.param => table'[i].updated_at = clock

\* C4: created_at keeps its insert value, updated_at never decreases and is
\* refreshed by the server on every successful PUT and verify, so that
\* updated_at >= created_at always.
C4_Timestamps == [](C4_Order) /\ [][C4_Step]_vars

\* C4 witness: a PUT whose body carried updated_at and created_at keys has
\* succeeded on a row created at an earlier clock value, and the row's
\* updated_at is the clock, not the supplied value.
C4_Witness ==
  /\ last # None
  /\ last.req.op = "PUT"
  /\ last.status = 200
  /\ "updated_at" \in DOMAIN last.req.body
  /\ \E i \in DOMAIN table :
       /\ ToString(i) = last.req.param
       /\ table[i].created_at < table[i].updated_at
       /\ table[i].updated_at = clock
       /\ Num(table[i].updated_at) # last.req.body.updated_at

----
\* C5, part 1: no stored row has a null student_id or badge_name.
C5_NoNulls ==
  \A i \in DOMAIN table : ~table[i].student_id.null /\ ~table[i].badge_name.null

\* A request that would store a null student_id or badge_name.
StoresNull(r) ==
  /\ r.op \in {"POST", "PUT"}
  /\ \E key \in {"student_id", "badge_name"} :
       \/ r.op = "POST" /\ Get(r.body, key) \in {Undef, Null}
       \/ r.op = "PUT" /\ key \in DOMAIN r.body /\ r.body[key] \in {Undef, Null}

\* C5, part 2: such a request fails and leaves the table unchanged.
C5_Step ==
  (HandledStep /\ StoresNull(last'.req)) => (last'.status >= 400 /\ table' = table)

\* C5: after any sequence of requests no stored row has a null student_id or
\* a null badge_name; a request that would store one fails and leaves the
\* table unchanged.
C5_NeverNull == [](C5_NoNulls) /\ [][C5_Step]_vars

\* C5 witness: a PUT setting student_id to null on an existing row was
\* refused by the storage layer.
C5_Witness ==
  /\ last # None
  /\ last.req.op = "PUT"
  /\ "student_id" \in DOMAIN last.req.body
  /\ last.req.body.student_id = Null
  /\ \E i \in DOMAIN table : ToString(i) = last.req.param
  /\ last.errored

----
\* C6, part 1: a deleted id names no row, and a GET of it is answered 404.
C6_Gone ==
  \A i \in deleted :
    /\ i \notin DOMAIN table
    /\ (last # None /\ last.req.op = "GET" /\ last.req.param = ToString(i))
         => last.status = 404

\* C6, part 2: a successful DELETE removes the row and returns the values it
\* last stored.
C6_Step ==
  (HandledStep /\ last'.req.op = "DELETE" /\ last'.status = 200) =>
    \E i \in DOMAIN table :
      /\ ToString(i) = last'.req.param
      /\ i \notin DOMAIN table'
      /\ last'.data = <<table[i]>>

\* C6: after a successful DELETE the row is gone and every later GET of the
\* id is answered 404, whatever happens in between: the id is never assigned
\* again.
C6_DeletedStaysGone == [](C6_Gone) /\ [][C6_Step]_vars

\* C6 witness: a GET of a deleted id is answered 404 after a later create
\* has inserted a row with a higher id.
C6_Witness ==
  /\ last # None
  /\ last.req.op = "GET"
  /\ last.status = 404
  /\ \E i \in deleted :
       /\ last.req.param = ToString(i)
       /\ \E j \in DOMAIN table : j > i

----
\* C7: a POST whose student_id or badge_name is missing or falsy is answered
\* 400 whatever its other fields, before any statement is issued, and no row
\* is inserted.
C7_CreateValidation ==
  [][(/\ HandledStep
      /\ last'.req.op = "POST"
      /\ \/ IsFalsy(Get(last'.req.body, "student_id"))
         \/ IsFalsy(Get(last'.req.body, "badge_name")))
     => (/\ last'.status = 400
         /\ ~last'.queried
         /\ ~last'.errored
         /\ table' = table
         /\ nextId' = nextId)]_vars

\* C7 witness: a POST with student_id 0 and a valid badge_name was answered
\* 400 on an existing table.
C7_Witness ==
  /\ tableExists
  /\ last # None
  /\ last.req.op = "POST"
  /\ Get(last.req.body, "student_id") = Num(0)
  /\ Get(last.req.body, "badge_name") = Str("a")
  /\ last.status = 400

----
\* C8: a PUT whose body has none of the allowed keys is answered 400, for
\* existing and missing ids alike, without any statement being issued, and the
\* table is unchanged.
C8_EmptyUpdate ==
  [][(/\ HandledStep
      /\ last'.req.op = "PUT"
      /\ DOMAIN last'.req.body \cap RecognizedKeys = {})
     => (/\ last'.status = 400
         /\ ~last'.queried
         /\ ~last'.errored
         /\ table' = table)]_vars

\* C8 witness: a PUT of only unrecognized keys on an existing row was
\* answered 400.
C8_Witness ==
  /\ last # None
  /\ last.req.op = "PUT"
  /\ DOMAIN last.req.body # {}
  /\ DOMAIN last.req.body \cap RecognizedKeys = {}
  /\ \E i \in DOMAIN table : ToString(i) = last.req.param
  /\ last.status = 400

----
\* The rows a listing request asks for: those of the student its filter
\* names, or all rows without a filter.
Asked(r, tbl) ==
  IF r.op = "STUDENT" THEN RowsOfStudent(tbl, r.param)
  ELSE IF "student_id" \in DOMAIN r.body THEN RowsOfStudent(tbl, r.body.student_id.s)
  ELSE {tbl[i] : i \in DOMAIN tbl}

\* A listing request whose filter, if any, is the decimal text of a student id.
IsListing(r) ==
  \/ r.op = "STUDENT" /\ IsDecimalText(r.param)
  \/ r.op = "LIST" /\ "student_id" \notin DOMAIN r.body
  \/ r.op = "LIST" /\ "student_id" \in DOMAIN r.body /\ IsDecimalText(r.body.student_id.s)

\* The rows whose student_id equals the value a listing request gives, or
\* all rows when it gives none.
AskedAsGiven(r, tbl) ==
  IF r.op = "STUDENT" THEN RowsOfStudent(tbl, r.param)
  ELSE IF "student_id" \in DOMAIN r.body THEN RowsOfStudent(tbl, r.body.student_id.s)
  ELSE {tbl[i] : i \in DOMAIN tbl}

\* C9 (as stated): for every table state and every given value, GET /badges
\* with a student_id filter and GET /students/:studentId/badges answer 200
\* with exactly the rows whose student_id equals the value (an empty list,
\* not an error, when none match), GET /badges without a filter with every
\* row, ordered by created_at descending, and the table is unchanged.
C9_ListingAnyFilter ==
  [][(HandledStep /\ tableExists /\ last'.req.op \in {"LIST", "STUDENT"}) =>
       /\ last'.status = 200
       /\ ~last'.errored
       /\ ListsNewestFirst(last'.data, AskedAsGiven(last'.req, table))
       /\ table' = table]_vars

\* C9 restricted to filters that are the decimal text of a student id (and
\* to no filter): the part of the claim the code keeps.
C9_Listing ==
  [][(HandledStep /\ tableExists /\ IsListing(last'.req)) =>
       /\ last'.status = 200
       /\ ListsNewestFirst(last'.data, Asked(last'.req, table))
       /\ table' = table]_vars

\* The restricted C9 is exercised: a filtered listing returned the two rows of a student, the
\* later created one first.
C9_Witness ==
  /\ last # None
  /\ last.req.op = "LIST"
  /\ "student_id" \in DOMAIN last.req.body
  /\ last.status = 200
  /\ Len(last.data) = 2
  /\ last.data[1].created_at > last.data[2].created_at
  /\ last.data[1].id > last.data[2].id

----
\* A create body whose student_id is a nonzero number or its decimal text and
\* whose badge_name is a non-empty string.
IsValidCreate(body) ==
  /\ {"student_id", "badge_name"} \subseteq DOMAIN body
  /\ \/ body.student_id.t = "number" /\ body.student_id.n # 0
     \/ body.student_id.t = "string" /\ body.student_id.s # "0"
        /\ IsDecimalText(body.student_id.s)
  /\ body.badge_name.t = "string" /\ body.badge_name.s # ""

\* C10: a valid POST inserts exactly one row, with an id no row has or had,
\* verified false when the body omits it and the boolean supplied when it
\* gives one, and answers 201 with the stored row.
C10_Create ==
  [][(HandledStep /\ tableExists /\ last'.req.op = "POST" /\ IsValidCreate(last'.req.body)) =>
       /\ last'.status = 201
       /\ \E i \in DOMAIN table' :
            /\ i \notin DOMAIN table
            /\ i \notin deleted
            /\ DOMAIN table' = DOMAIN table \cup {i}
            /\ \A j \in DOMAIN table : table'[j] = table[j]
            /\ table'[i].id = i
            /\ "verified" \notin DOMAIN last'.req.body => table'[i].verified = SqlVal(FALSE)
            /\ ("verified" \in DOMAIN last'.req.body /\ last'.req.body.verified.t = "boolean")
                 => table'[i].verified = SqlVal(last'.req.body.verified.b)
            /\ last'.data = <<table'[i]>>]_vars

\* C10 witness: a create without verified has stored verified = false in a
\* table that already held a row and had lost another.
C10_Witness ==
  /\ last # None
  /\ last.req.op = "POST"
  /\ last.status = 201
  /\ "verified" \notin DOMAIN last.req.body
  /\ ~last.data[1].verified.v
  /\ deleted # {}
  /\ last.data[1].id \in DOMAIN table

====
